---- MODULE Spec2Model ----
(***************************************************************************)
(* kraft: the `create` and `list` commands of src/kraft/cli.py, run by     *)
(* several callers against one filesystem and one template catalog.        *)
(*                                                                         *)
(* cli.py is modelled line by line.  Its collaborators (the name           *)
(* validator, the template catalog and the renderer/writer behind          *)
(* TemplateRenderer) are modelled from their contracts in spec.md.         *)
(***************************************************************************)
EXTENDS Integers, Sequences, FiniteSets, TLC

\* ------------------------------------------------------------------ bounds

\* Number of callers that may run a command at the same time.
NumCallers == 2
Procs == 1..NumCallers

\* ------------------------------------------------------------- input space

ValidName == "order-svc"
Names == {ValidName, "Order Svc", ""}
ServiceTypes == {"rest", "grpc"}
\* The order in which the catalog lists the templates it knows.
TemplateOrder == <<"rest", "grpc">>
Catalogs == {{}, {"rest"}, {"rest", "grpc"}}
KnownAddons == {"postgres"}
AddonChoices == {{}, {"postgres"}, {"bogus"}}
OutputDirs == {"", "out"}      \* "" is the absent --output option (None)
Ports == {8000, 8080}
PythonVersions == {"3.11", "3.12"}

\* Path.cwd() / name
CwdPath(name) == IF name = ValidName THEN "cwd/order-svc"
                 ELSE IF name = "" THEN "cwd" ELSE "cwd/Order Svc"

\* The paths a create can reach with an accepted name.
Targets == {"out", CwdPath(ValidName)}

\* What a path holds.  Nothing: "absent", or "cleaned" when the last writer
\* to touch it failed and removed what it had written.  "file" and "emptydir"
\* are put there by the caller; "root" (the new output root), "partial" (a
\* half-written tree) and "project" (a complete tree) by the writer.
Absent == {"absent", "cleaned"}
CallerKinds == {"file", "emptydir"}

Inputs == [name : Names, service_type : ServiceTypes, port : Ports,
           python_version : PythonVersions, with_addons : AddonChoices,
           no_docker : BOOLEAN, no_tests : BOOLEAN, output_dir : OutputDirs]

\* The option defaults of create (cli.py lines 29-39).
DefaultPort == 8000
DefaultPython == "3.11"
DefaultInputs == {i \in Inputs : /\ i.port = DefaultPort
                                 /\ i.python_version = DefaultPython
                                 /\ i.with_addons = {}
                                 /\ i.no_docker = FALSE
                                 /\ i.no_tests = FALSE}

NoInput == [name |-> "", service_type |-> "rest", port |-> DefaultPort,
            python_version |-> DefaultPython, with_addons |-> {},
            no_docker |-> FALSE, no_tests |-> FALSE, output_dir |-> ""]
NoArgs == [called |-> FALSE]

VARIABLES
  fs,        \* path -> what it holds
  catalog,   \* the template identifiers the catalog knows
  pc,        \* caller -> position in the command
  inp,       \* caller -> the arguments of its create
  trace,     \* caller -> the collaborators it has consulted, in order
  seen,      \* caller -> what target_dir.exists() looked at ("unchecked" before)
  info,      \* caller -> what get_template_info returned ("unchecked" before)
  args,      \* caller -> the arguments it passed to render
  exc,       \* caller -> the exception render raised ("" when none)
  mutated,   \* caller -> whether its command has changed the filesystem
  cleanup,   \* caller -> "none", "removed" or "failed": the writer's cleanup
  out,       \* caller -> the messages its command printed
  exit,      \* caller -> exit status (-1 while running)
  after      \* caller -> started while its target held a created project,
             \*           and the target has not been removed since

vars == <<fs, catalog, pc, inp, trace, seen, info, args, exc, mutated,
          cleanup, out, exit, after>>

\* ----------------------------------------------------------- collaborators

\* ui.error / ui.info / ui.success / ui.print / ui.table: one printed line.
Msg(level, text, a) == [level |-> level, text |-> text, args |-> a]

\* validate_service_name: an accept/reject predicate with an optional error
\* text and an optional suggestion.
validate_service_name(name) ==
  IF name = ValidName THEN [valid |-> TRUE, error |-> "", suggestion |-> ""]
  ELSE IF name = "" THEN [valid |-> FALSE, error |-> "", suggestion |-> ""]
  ELSE [valid |-> FALSE, error |-> "Invalid characters in name",
        suggestion |-> ValidName]

\* TemplateRenderer.get_template_info: exact match on the identifier, absent
\* ("") when the catalog does not know it.
get_template_info(cat, service_type) ==
  IF service_type \in cat THEN service_type ELSE ""

\* TemplateRenderer.list_templates: every known template, in catalog order.
catalog_list(cat) == SelectSeq(TemplateOrder, LAMBDA t : t \in cat)

\* ------------------------------------------------------------ cli.py create

\* Line 51: target_dir = output_dir or Path.cwd() / name
target_dir(i) == IF i.output_dir # "" THEN i.output_dir ELSE CwdPath(i.name)

\* A check that sees directories only (is_dir() in place of exists()).
exists_dirs_only(held) == held \notin Absent \cup {"file"}

\* A check that sees files only (is_file() in place of exists()).
exists_files_only(held) == held = "file"

\* Line 53: target_dir.exists()
exists(held) == held \notin Absent

\* A lookup result that is never taken for absent.
never_absent(template_info) == FALSE

\* Line 62: not template_info
not_found(template_info) == template_info = ""

\* A context whose container flag lost its negation.
variables_unnegated(i) == [project_name |-> i.name,
                           port |-> i.port,
                           python_version |-> i.python_version,
                           include_docker |-> i.no_docker,
                           include_tests |-> ~i.no_tests]

\* Lines 69-75: the variable context handed to render.
variables(i) == [project_name |-> i.name,
                 port |-> i.port,
                 python_version |-> i.python_version,
                 include_docker |-> ~i.no_docker,
                 include_tests |-> ~i.no_tests]

\* Line 80: renderer.render(service_type, target_dir, variables)
render_call(i) == [called |-> TRUE, service_type |-> i.service_type,
                   target |-> target_dir(i), variables |-> variables(i),
                   addons |-> {}]

\* Line 64: the types offered after an unknown service type.
available_types(cat) == <<"rest">>

\* A report that leaves the exception out of the message.
failure_report_bare(e) == <<Msg("error", "Failed to create service", <<>>)>>

\* Lines 93-95: what the handler prints for an exception of render.
failure_report(e) == <<Msg("error", "Failed to create service", <<e>>)>>

\* Lines 83-91: what create prints after render returned.
success_report(i) ==
  <<Msg("success", "Created service", <<i.name, target_dir(i)>>),
    Msg("print", "Next steps", <<i.name>>)>>

Init ==
  /\ fs = [t \in Targets |-> "absent"]
  /\ catalog \in Catalogs
  /\ pc = [p \in Procs |-> "idle"]
  /\ inp = [p \in Procs |-> NoInput]
  /\ trace = [p \in Procs |-> <<>>]
  /\ seen = [p \in Procs |-> "unchecked"]
  /\ info = [p \in Procs |-> "unchecked"]
  /\ args = [p \in Procs |-> NoArgs]
  /\ exc = [p \in Procs |-> ""]
  /\ mutated = [p \in Procs |-> FALSE]
  /\ cleanup = [p \in Procs |-> "none"]
  /\ out = [p \in Procs |-> <<>>]
  /\ exit = [p \in Procs |-> -1]
  /\ after = [p \in Procs |-> FALSE]

\* A validation that reports a rejected name and carries on.
CreateValidate_no_exit(p, i) ==
  /\ pc[p] = "idle"
  /\ inp' = [inp EXCEPT ![p] = i]
  /\ trace' = [trace EXCEPT ![p] = <<"validate">>]
  /\ after' = [after EXCEPT ![p] = /\ target_dir(i) \in Targets
                                    /\ fs[target_dir(i)] = "project"]
  /\ LET v == validate_service_name(i.name) IN
       out' = [out EXCEPT ![p] =
                 IF ~v.valid THEN <<Msg("error", "Invalid service name", <<>>)>>
                 ELSE <<>>]
  /\ pc' = [pc EXCEPT ![p] = "exists"]
  /\ UNCHANGED <<fs, catalog, seen, info, args, exc, mutated, cleanup, exit>>

\* Lines 43-48: validate the name; a rejected name ends the command.
CreateValidate(p, i) ==
  /\ pc[p] = "idle"
  /\ inp' = [inp EXCEPT ![p] = i]
  /\ trace' = [trace EXCEPT ![p] = <<"validate">>]
  /\ after' = [after EXCEPT ![p] = /\ target_dir(i) \in Targets
                                    /\ fs[target_dir(i)] = "project"]
  /\ LET v == validate_service_name(i.name) IN
       IF ~v.valid
       THEN /\ out' = [out EXCEPT ![p] =
                 <<Msg("error", IF v.error # "" THEN v.error
                                ELSE "Invalid service name", <<>>)>>
                 \o (IF v.suggestion # ""
                     THEN <<Msg("info", "Suggestion", <<v.suggestion>>)>>
                     ELSE <<>>)]
            /\ exit' = [exit EXCEPT ![p] = 1]
            /\ pc' = [pc EXCEPT ![p] = "done"]
       ELSE /\ pc' = [pc EXCEPT ![p] = "exists"]
            /\ UNCHANGED <<out, exit>>
  /\ UNCHANGED <<fs, catalog, seen, info, args, exc, mutated, cleanup>>

\* Lines 51-55: an existing target ends the command.
CreateExists(p) ==
  /\ pc[p] = "exists"
  /\ LET t == target_dir(inp[p]) IN
       /\ trace' = [trace EXCEPT ![p] = Append(@, "exists")]
       /\ seen' = [seen EXCEPT ![p] = fs[t]]
       /\ IF exists(fs[t])
          THEN /\ out' = [out EXCEPT ![p] =
                    <<Msg("error", "Directory already exists", <<t>>)>>]
               /\ exit' = [exit EXCEPT ![p] = 1]
               /\ pc' = [pc EXCEPT ![p] = "done"]
          ELSE /\ pc' = [pc EXCEPT ![p] = "lookup"]
               /\ UNCHANGED <<out, exit>>
  /\ UNCHANGED <<fs, catalog, inp, info, args, exc, mutated, cleanup,
                 after>>

\* Lines 58-75: look the service type up; an unknown one ends the command.
CreateLookup(p) ==
  /\ pc[p] = "lookup"
  /\ LET template_info == get_template_info(catalog, inp[p].service_type) IN
       /\ trace' = [trace EXCEPT ![p] = Append(@, "lookup")]
       /\ info' = [info EXCEPT ![p] = IF template_info = "" THEN "absent"
                                      ELSE template_info]
       /\ IF not_found(template_info)
          THEN /\ out' = [out EXCEPT ![p] =
                    <<Msg("error", "Unknown service type",
                          <<inp[p].service_type>>),
                      Msg("info", "Available types",
                          available_types(catalog))>>]
               /\ exit' = [exit EXCEPT ![p] = 1]
               /\ pc' = [pc EXCEPT ![p] = "done"]
          ELSE /\ out' = [out EXCEPT ![p] =
                    <<Msg("info", "Creating service",
                          <<inp[p].service_type, inp[p].name>>)>>]
               /\ pc' = [pc EXCEPT ![p] = "render"]
               /\ UNCHANGED exit
  /\ UNCHANGED <<fs, catalog, inp, seen, args, exc, mutated, cleanup,
                 after>>

\* Line 80, entering render.  The writer creates the output root only if it
\* is absent (one atomic step); the plan is built before that and may fail.
RenderBegin(p) ==
  /\ pc[p] = "render"
  /\ LET t == target_dir(inp[p]) IN
       /\ trace' = [trace EXCEPT ![p] = Append(@, "render")]
       /\ args' = [args EXCEPT ![p] = render_call(inp[p])]
       /\ \/ /\ exc' = [exc EXCEPT ![p] = "PlanError"]
             /\ pc' = [pc EXCEPT ![p] = "except"]
             /\ UNCHANGED <<fs, mutated>>
          \/ /\ fs[t] \notin Absent
             /\ exc' = [exc EXCEPT ![p] = "TargetExists"]
             /\ pc' = [pc EXCEPT ![p] = "except"]
             /\ UNCHANGED <<fs, mutated>>
          \/ /\ fs[t] \in Absent
             /\ fs' = [fs EXCEPT ![t] = "root"]
             /\ mutated' = [mutated EXCEPT ![p] = TRUE]
             /\ pc' = [pc EXCEPT ![p] = "writing"]
             /\ UNCHANGED exc
  /\ UNCHANGED <<catalog, inp, seen, info, cleanup, out, exit, after>>

\* The writer finishes: every entry written, render returns.
RenderWrite(p) ==
  /\ pc[p] = "writing"
  /\ fs' = [fs EXCEPT ![target_dir(inp[p])] = "project"]
  /\ pc' = [pc EXCEPT ![p] = "returned"]
  /\ UNCHANGED <<catalog, inp, trace, seen, info, args, exc, mutated,
                 cleanup, out, exit, after>>

\* The writer fails part-way: it tries to remove the output root (which may
\* itself fail) and raises the write failure.
RenderFail(p) ==
  /\ pc[p] = "writing"
  /\ LET t == target_dir(inp[p]) IN
       \/ /\ fs' = [fs EXCEPT ![t] = "cleaned"]
          /\ cleanup' = [cleanup EXCEPT ![p] = "removed"]
       \/ /\ fs' = [fs EXCEPT ![t] = "partial"]
          /\ cleanup' = [cleanup EXCEPT ![p] = "failed"]
  /\ exc' = [exc EXCEPT ![p] = "WriteFailed"]
  /\ pc' = [pc EXCEPT ![p] = "except"]
  /\ UNCHANGED <<catalog, inp, trace, seen, info, args, mutated, out, exit,
                 after>>

\* Lines 83-91: render returned; report success.
CreateSuccess(p) ==
  /\ pc[p] = "returned"
  /\ out' = [out EXCEPT ![p] = @ \o success_report(inp[p])]
  /\ exit' = [exit EXCEPT ![p] = 0]
  /\ pc' = [pc EXCEPT ![p] = "done"]
  /\ UNCHANGED <<fs, catalog, inp, trace, seen, info, args, exc, mutated,
                 cleanup, after>>

\* A handler that reports the failure but lets the command end normally.
CreateExcept_no_exit(p) ==
  /\ pc[p] = "except"
  /\ out' = [out EXCEPT ![p] = @ \o failure_report(exc[p])]
  /\ exit' = [exit EXCEPT ![p] = 0]
  /\ pc' = [pc EXCEPT ![p] = "done"]
  /\ UNCHANGED <<fs, catalog, inp, trace, seen, info, args, exc, mutated,
                 cleanup, after>>

\* Lines 93-95: render raised; report the failure and exit 1.
CreateExcept(p) ==
  /\ pc[p] = "except"
  /\ out' = [out EXCEPT ![p] = @ \o failure_report(exc[p])]
  /\ exit' = [exit EXCEPT ![p] = 1]
  /\ pc' = [pc EXCEPT ![p] = "done"]
  /\ UNCHANGED <<fs, catalog, inp, trace, seen, info, args, exc, mutated,
                 cleanup, after>>

\* Lines 98-112: the list command.
ListTemplates(p) ==
  /\ pc[p] = "idle"
  /\ LET templates == catalog_list(catalog) IN
       out' = [out EXCEPT ![p] =
                 IF templates = <<>>
                 THEN <<Msg("info", "No templates available", <<>>)>>
                 ELSE <<Msg("table", "Available Templates", templates)>>]
  /\ trace' = [trace EXCEPT ![p] = <<"list">>]
  /\ exit' = [exit EXCEPT ![p] = 0]
  /\ pc' = [pc EXCEPT ![p] = "done"]
  /\ UNCHANGED <<fs, catalog, inp, seen, info, args, exc, mutated, cleanup,
                 after>>

\* The process has exited; the caller may run another command.
Return(p) ==
  /\ pc[p] = "done"
  /\ pc' = [pc EXCEPT ![p] = "idle"]
  /\ inp' = [inp EXCEPT ![p] = NoInput]
  /\ trace' = [trace EXCEPT ![p] = <<>>]
  /\ seen' = [seen EXCEPT ![p] = "unchecked"]
  /\ info' = [info EXCEPT ![p] = "unchecked"]
  /\ args' = [args EXCEPT ![p] = NoArgs]
  /\ exc' = [exc EXCEPT ![p] = ""]
  /\ mutated' = [mutated EXCEPT ![p] = FALSE]
  /\ cleanup' = [cleanup EXCEPT ![p] = "none"]
  /\ out' = [out EXCEPT ![p] = <<>>]
  /\ exit' = [exit EXCEPT ![p] = -1]
  /\ after' = [after EXCEPT ![p] = FALSE]
  /\ UNCHANGED <<fs, catalog>>

\* The caller puts a file or a directory at a path.
CallerCreates(t, kind) ==
  /\ fs[t] \in Absent
  /\ fs' = [fs EXCEPT ![t] = kind]
  /\ UNCHANGED <<catalog, pc, inp, trace, seen, info, args, exc, mutated,
                 cleanup, out, exit, after>>

\* The caller removes (or renames away) what a path holds, but not under a
\* writer that is writing into it.
CallerRemoves(t) ==
  /\ fs[t] \notin Absent \cup {"root"}
  /\ fs' = [fs EXCEPT ![t] = "absent"]
  /\ after' = [p \in Procs |->
                 IF target_dir(inp[p]) = t THEN FALSE ELSE after[p]]
  /\ UNCHANGED <<catalog, pc, inp, trace, seen, info, args, exc, mutated,
                 cleanup, out, exit>>

Step(p) ==
  \/ CreateExists(p)
  \/ CreateLookup(p)
  \/ RenderBegin(p)
  \/ RenderWrite(p)
  \/ RenderFail(p)
  \/ CreateSuccess(p)
  \/ CreateExcept(p)
  \/ Return(p)

Env ==
  \/ \E t \in Targets, k \in CallerKinds : CallerCreates(t, k)
  \/ \E t \in Targets : CallerRemoves(t)

\* Callers run concurrently; their creates take the option defaults for the
\* values that only travel into the variable context.
Next ==
  \/ \E p \in Procs, i \in DefaultInputs : CreateValidate(p, i)
  \/ \E p \in Procs : ListTemplates(p)
  \/ \E p \in Procs : Step(p)
  \/ Env

Spec == Init /\ [][Next]_vars

\* One command at a time, over the whole input space.
Quiet == \A q \in Procs : pc[q] = "idle"

NextSeq ==
  \/ Quiet /\ \E p \in Procs, i \in Inputs : CreateValidate(p, i)
  \/ Quiet /\ \E p \in Procs : ListTemplates(p)
  \/ \E p \in Procs : Step(p)
  \/ Env

SeqSpec == Init /\ [][NextSeq]_vars

\* ------------------------------------------------------------------ claims

IsCreate(p) == trace[p] # <<>> /\ trace[p][1] = "validate"
Finished(p) == IsCreate(p) /\ pc[p] = "done"
Accepted(p) == validate_service_name(inp[p].name).valid
Errors(p) == SelectSeq(out[p], LAMBDA m : m.level = "error")
Successes(p) == SelectSeq(out[p], LAMBDA m : m.level = "success")
Calls(p) == Cardinality({k \in DOMAIN trace[p] : trace[p][k] = "render"})
ExistsError(p) == <<Msg("error", "Directory already exists",
                        <<target_dir(inp[p])>>)>>
UnknownTypeError(p) == <<Msg("error", "Unknown service type",
                             <<inp[p].service_type>>)>>
Order == <<"validate", "exists", "lookup", "render">>

\* C1: a create with an accepted name whose target exists when it is checked
\* (a file or a directory, empty or not) fails with the target-exists error,
\* never calls render and changes nothing on the filesystem.
C1_ExistingTargetRefused ==
  \A p \in Procs :
    (Finished(p) /\ Accepted(p) /\ seen[p] \notin Absent \cup {"unchecked"})
      => /\ Errors(p) = ExistsError(p)
         /\ exit[p] = 1
         /\ Calls(p) = 0
         /\ ~args[p].called
         /\ ~mutated[p]

C1_Witness ==
  \E p \in Procs : Finished(p) /\ Accepted(p) /\ seen[p] = "file" /\ exit[p] = 1

\* C2: two creates for the same absent target are never both between the
\* existence check and the creation of the output root.
C2_CheckAndCreateExclusive ==
  \A p, q \in Procs :
    (/\ p # q
     /\ pc[p] \in {"lookup", "render"}
     /\ pc[q] \in {"lookup", "render"})
      => target_dir(inp[p]) # target_dir(inp[q])

C4_UnknownAddonRejected ==
  \A p \in Procs :
    Finished(p) =>
      /\ ~(inp[p].with_addons \subseteq KnownAddons) => exit[p] = 1
      /\ exit[p] = 0 => inp[p].with_addons \subseteq args[p].addons

\* C5: a create with an accepted name and an absent target whose service type
\* the catalog does not know fails with the unknown-service-type error, never
\* calls render and changes nothing on the filesystem.
C5_UnknownTypeRefused ==
  \A p \in Procs :
    (/\ Finished(p) /\ Accepted(p)
     /\ seen[p] \in Absent
     /\ inp[p].service_type \notin catalog)
      => /\ Errors(p) = UnknownTypeError(p)
         /\ exit[p] = 1
         /\ Calls(p) = 0
         /\ ~args[p].called
         /\ ~mutated[p]

C5_Witness ==
  \E p \in Procs :
    /\ Finished(p) /\ Accepted(p) /\ seen[p] = "absent"
    /\ inp[p].service_type = "grpc" /\ catalog = {"rest"}
    /\ exit[p] = 1

\* C6 as stated: every create started after a create for the same target has
\* succeeded, the target not removed since, fails with the target-exists
\* error and does not call render.
C6_LaterCreateTargetExists ==
  \A p \in Procs :
    (Finished(p) /\ after[p])
      => /\ Errors(p) = ExistsError(p)
         /\ Calls(p) = 0

\* C6 as amended: the created project stays in place until the caller removes
\* it; every create started after it that has an accepted name fails with the
\* target-exists error, one with a rejected name fails with the name error,
\* and neither calls render.
C6_NoImplicitOverwrite ==
  \A p \in Procs :
    after[p] =>
      /\ fs[target_dir(inp[p])] = "project"
      /\ Calls(p) = 0
      /\ ~mutated[p]
      /\ Finished(p) =>
           /\ exit[p] = 1
           /\ Len(Errors(p)) = 1
           /\ Accepted(p) <=> Errors(p) = ExistsError(p)
           /\ Accepted(p) <=> Len(trace[p]) = 2

C6_Witness ==
  \E p \in Procs :
    Finished(p) /\ after[p] /\ Accepted(p) /\ Errors(p) = ExistsError(p)

\* C7: a finished create has status 0 or 1; status 0 goes with the success
\* message, a render that returned and no error message; status 1 goes with
\* an error message and no success message; render is called at most once.
C7_SuccessOrReportedFailure ==
  \A p \in Procs :
    /\ Calls(p) <= 1
    /\ Successes(p) # <<>> => (exc[p] = "" /\ Calls(p) = 1 /\ Errors(p) = <<>>)
    /\ exc[p] # "" => (Calls(p) = 1 /\ Successes(p) = <<>>)
    /\ Finished(p) =>
         /\ exit[p] \in {0, 1}
         /\ exit[p] = 0 <=> Successes(p) # <<>>
         /\ exit[p] = 1 <=> Errors(p) # <<>>

\* A write that failed and left a half-written tree behind, reported.
C7_Witness ==
  \E p \in Procs :
    /\ Finished(p) /\ exit[p] = 1 /\ exc[p] = "WriteFailed"
    /\ cleanup[p] = "failed" /\ fs[target_dir(inp[p])] = "partial"
    /\ Errors(p) # <<>>

\* C8: the variable context render receives holds the name, the port and the
\* runtime version as supplied, and the two inclusion flags as the negations
\* of no_docker and no_tests (both true with the defaults).
C8_VariableContext ==
  \A p \in Procs :
    args[p].called =>
      LET v == args[p].variables IN
        /\ DOMAIN v = {"project_name", "port", "python_version",
                       "include_docker", "include_tests"}
        /\ v.project_name = inp[p].name
        /\ v.port = inp[p].port
        /\ v.python_version = inp[p].python_version
        /\ v.include_docker = ~inp[p].no_docker
        /\ v.include_tests = ~inp[p].no_tests
        /\ (~inp[p].no_docker /\ ~inp[p].no_tests)
             => (v.include_docker /\ v.include_tests)

C8_Witness ==
  \E p \in Procs :
    /\ args[p].called
    /\ inp[p].no_docker /\ ~inp[p].no_tests
    /\ inp[p].port = 8080 /\ inp[p].python_version = "3.12"
    /\ ~args[p].variables.include_docker

\* C9: after an unknown service type, the types create offers are the
\* identifiers the catalog lists.
C9_OfferedTypesAreCatalog ==
  \A p \in Procs :
    (Finished(p) /\ info[p] = "absent")
      => \E k \in DOMAIN out[p] :
           /\ out[p][k].text = "Available types"
           /\ out[p][k].args = catalog_list(catalog)

\* C10: create consults the validator, the filesystem and the catalog in that
\* order and stops at the first that fails: a failed create reports exactly
\* one error, that of the first failing precondition, and render is called
\* only after all three were seen to hold.
C10_PreconditionOrder ==
  \A p \in Procs :
    IsCreate(p) =>
      /\ Len(trace[p]) <= 4
      /\ trace[p] = SubSeq(Order, 1, Len(trace[p]))
      /\ seen[p] # "unchecked" <=> Len(trace[p]) >= 2
      /\ info[p] # "unchecked" <=> Len(trace[p]) >= 3
      /\ pc[p] # "done" => Accepted(p)
      /\ Len(trace[p]) >= 3 => seen[p] \in Absent
      /\ Calls(p) = 1 => (/\ Accepted(p)
                          /\ seen[p] \in Absent
                          /\ info[p] = inp[p].service_type)
      /\ (Finished(p) /\ exit[p] = 1) =>
           /\ Len(Errors(p)) = 1
           /\ ~Accepted(p) <=> Len(trace[p]) = 1
           /\ (Accepted(p) /\ seen[p] \notin Absent)
                <=> (Len(trace[p]) = 2 /\ Errors(p) = ExistsError(p))
           /\ (Accepted(p) /\ seen[p] \in Absent /\ info[p] = "absent")
                <=> (Len(trace[p]) = 3 /\ Errors(p) = UnknownTypeError(p))
           /\ Len(trace[p]) = 4 <=> exc[p] # ""

C10_Witness ==
  \E p \in Procs :
    /\ Finished(p) /\ Accepted(p)
    /\ seen[p] = "file"
    /\ inp[p].service_type \notin catalog
    /\ Errors(p) = ExistsError(p)
    /\ info[p] = "unchecked"

====
